---- MODULE Spec2Model ----
(***************************************************************************)
(* Hopcroft-Karp maximum bipartite matching (src/src/lib.rs).              *)
(*                                                                         *)
(* One behaviour is one call of a public function on an edge list: the     *)
(* graph is built (BGraph::new or BGraph::new_mapped), the matcher is      *)
(* created, the phase loop alternates one BFS with one pass of the         *)
(* `for u in &graph.left` loop, and the result is extracted.               *)
(* The iteration order of an FxHashSet is not specified and stays fixed    *)
(* while the set is not modified. The graph's sets are never modified      *)
(* after construction; their orders are chosen by the first bfs, the first *)
(* place where an order can make a difference (HopcroftKarp::new only      *)
(* collects the sets into maps).                                           *)
(* A panic unwinds the call: the graph and the matcher are dropped.        *)
(* usize is narrowed to 8 bits, so INFINITY = usize::MAX is 255.           *)
(***************************************************************************)
EXTENDS Integers, Sequences, FiniteSets, TLC

\* ---- bounds of the model ----
MaxEdges == 3
MaxBound == 1
MaxRuns == 2

\* Labels an input edge may use as its left / right endpoint. Label 3 may be
\* used on both sides, which makes non-bipartite inputs such as
\* [(1,3), (3,4)] possible.
LeftLabels == {1, 2, 3}
RightLabels == {3, 4}

\* ---- program constants ----
GUARD == -1
INFINITY == 255

VARIABLES
    edges,          \* the edge list passed to the public function
    call,           \* [op, bound]: the public function called and its bound
    pc,             \* control point of the call
    err,            \* "none", or the panic that ended the call
    left, right, adj,          \* BGraph fields
    leftOrder,      \* iteration order of graph.left
    adjOrder,       \* iteration order of adj[u], for the left vertices u
    back_mapping,   \* reverse relabeling table of new_mapped
    pair_left, pair_right, distance, size, max_size,   \* HopcroftKarp fields
    cursor,         \* position of the for loop in leftOrder
    result,         \* what the public function returned
    phase,          \* number of BFS runs of this call so far
    bfsFound,       \* value returned by the last BFS
    dfsCalls,       \* number of top-level DFS calls of this call so far
    overflow,       \* TRUE once a depth increment wrapped around
    lastDfs,        \* [u, ret, flips] of the last top-level dfs: its vertex,
                    \* what it returned, how often it ran "Match up v and u"
    deadEnds,       \* vertices on which a dfs returned false since the last bfs
    revisited,      \* TRUE once dfs was called on a vertex of deadEnds
    infEntry,       \* TRUE once dfs was called on a vertex of depth INFINITY
    sizeAtBfs,      \* value of size when the last bfs ran
    runs,           \* number of calls made on this input so far
    prevCard        \* cardinality returned by the previous call, -1 if none

vars == <<edges, call, pc, err, left, right, adj, leftOrder, adjOrder,
          back_mapping, pair_left, pair_right, distance, size, max_size,
          cursor, result, phase, bfsFound, dfsCalls, overflow, lastDfs,
          deadEnds, revisited, infEntry, sizeAtBfs, runs, prevCard>>

\* What the model records about the dfs calls, beside the program's state.
dfsLog == <<lastDfs, deadEnds, revisited, infEntry, sizeAtBfs>>
NoDfs == [u |-> GUARD, ret |-> FALSE, flips |-> 0]

\* ---- the public functions ----
Ops == {"matching", "matching_size", "matching_mapped", "matching_mapped_size",
        "bounded_matching", "bounded_matching_mapped",
        "bounded_matching_mapped_size"}
Mapped(op) == op \in {"matching_mapped", "matching_mapped_size",
                      "bounded_matching_mapped", "bounded_matching_mapped_size"}
Bounded(op) == op \in {"bounded_matching", "bounded_matching_mapped",
                       "bounded_matching_mapped_size"}
ReturnsSize(op) == op \in {"matching_size", "matching_mapped_size",
                           "bounded_matching_mapped_size"}

Calls == {c \in [op : Ops, bound : 0..MaxBound] : Bounded(c.op) \/ c.bound = 0}

EdgeUniverse == {e \in LeftLabels \X RightLabels : e[1] < e[2]}
EdgeLists == UNION {[1..n -> EdgeUniverse] : n \in 0..MaxEdges}

\* ---- maps and sets ----
\* The element of a one-element set. `Once({e(x) : x \in {a}})` is e(a) with a
\* computed once.
Once(S) == CHOOSE x \in S : TRUE
EmptyMap == << >>
Insert(m0, k, v) ==
    Once({[x \in (DOMAIN m) \cup {k} |-> IF x = k THEN v ELSE m[x]] : m \in {m0}})
Min(a, b) == IF a <= b THEN a ELSE b
Range(s) == {s[i] : i \in 1..Len(s)}
\* The orders in which a hash set S may be iterated.
RECURSIVE Perms(_)
Perms(S) ==
    IF S = {} THEN {<< >>}
    ELSE UNION {{<<x>> \o p : p \in Perms(S \ {x})} : x \in S}


\* ---- BGraph ----
EmptyGraph == [left |-> {}, right |-> {}, adj |-> EmptyMap]

\* Variant of AdjInsert: adj.insert(k, {x}), which replaces the neighbour set.
AdjInsertOverwrite(a, k, x) ==
    [y \in (DOMAIN a) \cup {k} |-> IF y = k THEN {x} ELSE a[y]]

\* adj.entry(k).or_default().insert(x)
AdjInsert(a0, k, x) ==
    Once({[y \in (DOMAIN a) \cup {k} |->
             IF y = k THEN (IF k \in DOMAIN a THEN a[k] ELSE {}) \cup {x} ELSE a[y]]
          : a \in {a0}})

\* One iteration of the edge loop of BGraph::new, on the edge (u, v).
AddEdge(g, u, v) ==
    [left |-> g.left \cup {u},
     right |-> g.right \cup {v},
     adj |-> AdjInsert(AdjInsert(g.adj, u, v), v, u)]

\* The edge loop of BGraph::new from position i on.
RECURSIVE NewFold(_, _, _)
NewFold(es, i, g0) ==
    Once({IF i > Len(es) THEN g
          ELSE NewFold(es, i + 1, AddEdge(g, es[i][1], es[i][2]))
          : g \in {g0}})

\* Variant of NotBipartite: a per-edge test, true only of an edge (u, u).
NotBipartitePerEdge(g) == \E u \in g.left \cap g.right : u \in g.adj[u]

\* The bipartiteness test of BGraph::new.
NotBipartite(g) == Cardinality(g.left \cap g.right) > 0

\* new_mapped, "Collect vertices".
RECURSIVE CollectLeft(_, _, _)
CollectLeft(es, i, s) ==
    IF i > Len(es) THEN s ELSE CollectLeft(es, i + 1, s \cup {es[i][1]})
RECURSIVE CollectRight(_, _, _)
CollectRight(es, i, s) ==
    IF i > Len(es) THEN s ELSE CollectRight(es, i + 1, s \cup {es[i][2]})

\* new_mapped, "Create mapping": one of the two id loops, over the labels of
\* `order` from position i on. m = [mapping, back_mapping, ids, id].
RECURSIVE AssignIds(_, _, _)
AssignIds(order, i, m) ==
    IF i > Len(order) THEN m
    ELSE AssignIds(order, i + 1,
            [mapping |-> Insert(m.mapping, order[i], m.id),
             back_mapping |-> Insert(m.back_mapping, m.id, order[i]),
             ids |-> m.ids \cup {m.id},
             id |-> m.id + 1])

\* new_mapped, "Construct adjacency lists", from position i on.
RECURSIVE MappedFold(_, _, _, _)
MappedFold(es, i, mapping, g0) ==
    Once({IF i > Len(es) THEN g
          ELSE MappedFold(es, i + 1, mapping,
                  AddEdge(g, mapping[es[i][1]], mapping[es[i][2]]))
          : g \in {g0}})

\* Variant of NewMapped: the ids of the right labels start at 0 again.
NewMappedIdReset(es, lo, ro) ==
    LET ml == AssignIds(lo, 1, [mapping |-> EmptyMap, back_mapping |-> EmptyMap,
                                ids |-> {}, id |-> 0])
        mr == AssignIds(ro, 1, [mapping |-> ml.mapping,
                                back_mapping |-> ml.back_mapping,
                                ids |-> {}, id |-> 0])
    IN [graph |-> MappedFold(es, 1, mr.mapping,
                     [left |-> ml.ids, right |-> mr.ids, adj |-> EmptyMap]),
        back_mapping |-> mr.back_mapping]

\* BGraph::new_mapped, with orig_left iterated in the order lo and orig_right
\* in the order ro: the graph and the reverse table.
NewMapped(es, lo, ro) ==
    LET ml == AssignIds(lo, 1, [mapping |-> EmptyMap, back_mapping |-> EmptyMap,
                                ids |-> {}, id |-> 0])
        mr == AssignIds(ro, 1, [mapping |-> ml.mapping,
                                back_mapping |-> ml.back_mapping,
                                ids |-> {}, id |-> ml.id])
    IN [graph |-> MappedFold(es, 1, mr.mapping,
                     [left |-> ml.ids, right |-> mr.ids, adj |-> EmptyMap]),
        back_mapping |-> mr.back_mapping]

\* The adjacency sets the matcher iterates are those of the left vertices
\* (bfs line 118, dfs line 134); each gets an iteration order.
RECURSIVE OrdersOver(_, _)
OrdersOver(D, a) ==
    IF D = {} THEN {EmptyMap}
    ELSE LET u == CHOOSE x \in D : TRUE
         IN UNION {{Insert(f, u, p) : p \in Perms(a[u])} :
                       f \in OrdersOver(D \ {u}, a)}
AdjOrders(g) == OrdersOver(g.left \cap DOMAIN g.adj, g.adj)


\* ---- HopcroftKarp ----
\* A graph g below is [left, right, adj, leftOrder, adjOrder]; a matcher m is
\* [pair_left, pair_right, distance, size, max_size].

\* usize addition of 1 (lines 121 and 138). On usize::MAX a release build wraps
\* to 0 and a debug build panics; the callers record in `overflow` that the
\* operand was usize::MAX.
Add1(d) == (d + 1) % (INFINITY + 1)

\* HopcroftKarp::new
HKNew(g) ==
    [pair_left |-> [u \in g.left |-> GUARD],
     pair_right |-> [v \in g.right |-> GUARD],
     distance |-> EmptyMap,
     size |-> 0,
     max_size |-> Min(Cardinality(g.left), Cardinality(g.right))]

\* compute_bounded / compute_bounded_size: hk.max_size = min(bound, hk.max_size)
BoundedMaxSize(bound, ms) == Min(bound, ms)

\* Variant of BfsSeed: a matched vertex keeps the depth of the previous bfs.
RECURSIVE BfsSeedNoReset(_, _, _, _)
BfsSeedNoReset(g, m, i, b) ==
    IF i > Len(g.leftOrder) \/ b.err # "none" THEN b
    ELSE LET u == g.leftOrder[i] IN
         IF u \notin DOMAIN m.pair_left THEN [b EXCEPT !.err = "missing_key"]
         ELSE IF m.pair_left[u] = GUARD
         THEN BfsSeedNoReset(g, m, i + 1, [b EXCEPT !.distance = Insert(@, u, 0),
                                                    !.queue = Append(@, u)])
         ELSE BfsSeedNoReset(g, m, i + 1, b)

\* bfs, the loop over graph.left (lines 99-107), from position i on.
\* b = [distance, queue, err, overflow].
RECURSIVE BfsSeed(_, _, _, _)
BfsSeed(g, m, i, b0) ==
    Once({
    IF i > Len(g.leftOrder) \/ b.err # "none" THEN b
    ELSE LET u == g.leftOrder[i] IN
         IF u \notin DOMAIN m.pair_left THEN [b EXCEPT !.err = "missing_key"]
         ELSE IF m.pair_left[u] = GUARD
         THEN BfsSeed(g, m, i + 1, [b EXCEPT !.distance = Insert(@, u, 0),
                                             !.queue = Append(@, u)])
         ELSE BfsSeed(g, m, i + 1, [b EXCEPT !.distance = Insert(@, u, INFINITY)])
    : b \in {b0}})

\* bfs, the loop over the neighbours vs of u (lines 118-124), from position i.
RECURSIVE BfsNeighbours(_, _, _, _, _)
BfsNeighbours(m, u, vs, i, b0) ==
    Once({
    IF i > Len(vs) \/ b.err # "none" THEN b
    ELSE LET v == vs[i] IN
         IF v \notin DOMAIN m.pair_right THEN [b EXCEPT !.err = "missing_key"]
         ELSE LET v_pair == m.pair_right[v] IN
              IF v_pair \notin DOMAIN b.distance
              THEN [b EXCEPT !.err = "missing_key"]
              ELSE IF b.distance[v_pair] = INFINITY
              THEN BfsNeighbours(m, u, vs, i + 1,
                      [b EXCEPT !.distance = Insert(@, v_pair, Add1(b.distance[u])),
                                !.queue = Append(@, v_pair),
                                !.overflow = @ \/ b.distance[u] = INFINITY])
              ELSE BfsNeighbours(m, u, vs, i + 1, b)
    : b \in {b0}})

\* Variant of BfsExpands: a vertex as deep as the guard is expanded too.
BfsExpandsOrEqual(dist, u) == dist[u] <= dist[GUARD]

\* bfs, the pruning test of line 117.
BfsExpands(dist, u) == dist[u] < dist[GUARD]

\* bfs, the queue loop (lines 113-126).
RECURSIVE BfsLoop(_, _, _)
BfsLoop(g, m, b0) ==
    Once({
    IF b.queue = << >> \/ b.err # "none" THEN b
    ELSE LET u == Head(b.queue)
             b1 == [b EXCEPT !.queue = Tail(@)]
         IN IF u \notin DOMAIN b.distance
            THEN [b1 EXCEPT !.err = "debug_assert"]
            ELSE IF BfsExpands(b.distance, u)
            THEN IF u = GUARD THEN [b1 EXCEPT !.err = "guard"]
                 ELSE IF u \notin DOMAIN g.adj THEN [b1 EXCEPT !.err = "missing_key"]
                 ELSE BfsLoop(g, m, BfsNeighbours(m, u, g.adjOrder[u], 1, b1))
            ELSE BfsLoop(g, m, b1)
    : b \in {b0}})

\* Variant of BfsReturn: the comparison inverted.
BfsReturnInverted(dist) == dist[GUARD] = INFINITY

\* The value bfs returns (line 128).
BfsReturn(dist) == dist[GUARD] # INFINITY

\* HopcroftKarp::bfs: [distance, queue, err, overflow] when it returns or panics.
Bfs(g, m) ==
    LET seeded == BfsSeed(g, m, 1, [distance |-> m.distance, queue |-> << >>,
                                    err |-> "none", overflow |-> FALSE])
        guarded == [seeded EXCEPT !.distance = Insert(@, GUARD, INFINITY)]
    IN IF seeded.err # "none" THEN seeded ELSE BfsLoop(g, m, guarded)

\* Variant of DfsAdmissible: the depths are compared without the increment.
DfsAdmissibleSameDepth(dist, u, v_pair) == dist[v_pair] = dist[u]

\* dfs, the test of line 138.
DfsAdmissible(dist, u, v_pair) == dist[v_pair] = Add1(dist[u])

\* Variant of MatchUp: pair_right is not updated.
MatchUpLeftOnly(r, u, v) ==
    [r EXCEPT !.pair_left = Insert(@, u, v), !.ret = TRUE]

\* Variant of MatchUp: pair_left is not updated.
MatchUpRightOnly(r, u, v) ==
    [r EXCEPT !.pair_right = Insert(@, v, u), !.ret = TRUE]

\* Variant of MatchUp: the vertex v was matched to is unmatched.
MatchUpClearOld(r, u, v) ==
    LET old == r.pair_right[v] IN
    [r EXCEPT !.pair_right = Insert(@, v, u),
              !.pair_left = Insert(IF old = GUARD THEN @ ELSE Insert(@, old, GUARD),
                                   u, v),
              !.ret = TRUE]

\* dfs, "Match up v and u" (lines 141-143), on the state r the recursive call
\* left.
MatchUp(r, u, v) ==
    [r EXCEPT !.pair_right = Insert(@, v, u),
              !.pair_left = Insert(@, u, v),
              !.ret = TRUE]

\* Variant of MarkDeadEnd: the depth of u is left as it is.
MarkDeadEndNoMark(d, u) == [d EXCEPT !.ret = FALSE]

\* dfs, the dead end of lines 147-148.
MarkDeadEnd(d, u) ==
    [d EXCEPT !.distance = Insert(@, u, INFINITY), !.ret = FALSE]

\* HopcroftKarp::dfs and its loop over the neighbours vs of u from position i.
\* d = [pair_left, pair_right, distance, ret, err, overflow] and what is
\* recorded about the calls: flips, deadEnds, revisited, infEntry.
RECURSIVE Dfs(_, _, _)
RECURSIVE DfsNeighbours(_, _, _, _, _)
Dfs(g, u_guarded, d0) ==
    Once({
    IF d.err # "none" THEN d
    ELSE IF u_guarded = GUARD THEN [d EXCEPT !.ret = TRUE]
    ELSE IF u_guarded \notin DOMAIN g.adj THEN [d EXCEPT !.err = "missing_key"]
    ELSE DfsNeighbours(g, u_guarded, g.adjOrder[u_guarded], 1,
            [d EXCEPT !.revisited = @ \/ u_guarded \in d.deadEnds,
                      !.infEntry = @ \/ (u_guarded \in DOMAIN d.distance
                                          /\ d.distance[u_guarded] = INFINITY)])
    : d \in {d0}})

DfsNeighbours(g, u, vs, i, d0) ==
    Once({
    IF d.err # "none" THEN d
    ELSE IF i > Len(vs)
    THEN [MarkDeadEnd(d, u) EXCEPT !.deadEnds = @ \cup {u}]
    ELSE LET v == vs[i] IN
         IF v \notin DOMAIN d.pair_right THEN [d EXCEPT !.err = "missing_key"]
         ELSE LET v_pair == d.pair_right[v] IN
              IF v_pair \notin DOMAIN d.distance \/ u \notin DOMAIN d.distance
              THEN [d EXCEPT !.err = "missing_key"]
              ELSE LET d1 == [d EXCEPT !.overflow = @ \/ d.distance[u] = INFINITY] IN
                   IF DfsAdmissible(d.distance, u, v_pair)
                   THEN Once({IF r.err # "none" THEN r
                              ELSE IF r.ret
                              THEN [MatchUp(r, u, v) EXCEPT !.flips = @ + 1]
                              ELSE DfsNeighbours(g, u, vs, i + 1, r)
                              : r \in {Dfs(g, v_pair, d1)}})
                   ELSE DfsNeighbours(g, u, vs, i + 1, d1)
    : d \in {d0}})

\* Variant of LoopContinues: the size test off by one.
LoopContinuesOffByOne(found, sz, ms) == found /\ sz + 1 < ms

\* `self.bfs(&graph) && self.size < self.max_size` (lines 71 and 84), given
\* what bfs returned.
LoopContinues(found, sz, ms) == found /\ sz < ms

\* Variant of SizeAfterDfs: the counter is incremented whatever dfs returned.
SizeAfterDfsAlways(sz, ok) == sz + 1

\* The body of the for loop after dfs returned ok (lines 74-76, 87-89).
SizeAfterDfs(sz, ok) == IF ok THEN sz + 1 ELSE sz

\* The filter of compute's result extraction (line 80).
Matched(pl) == {u \in DOMAIN pl : pl[u] # GUARD}

\* Variant of ResultEdge: the pair is returned right endpoint first.
ResultEdgeSwapped(u, v) == <<v, u>>

\* The pair compute returns for the entry (u, v) of pair_left (line 80).
ResultEdge(u, v) == <<u, v>>

\* compute's result, with pair_left iterated in the order `order`.
RECURSIVE Extract(_, _, _)
Extract(pl, order, i) ==
    IF i > Len(order) THEN << >>
    ELSE <<ResultEdge(order[i], pl[order[i]])>> \o Extract(pl, order, i + 1)

\* Variant of Translate: only the left endpoint is translated back.
RECURSIVE TranslateLeftOnly(_, _, _)
TranslateLeftOnly(res, mapping, i) ==
    IF i > Len(res) THEN << >>
    ELSE <<<<mapping[res[i][1]], res[i][2]>>>> \o TranslateLeftOnly(res, mapping, i + 1)

\* The translation of the mapped functions (lines 274 and 290).
RECURSIVE Translate(_, _, _)
Translate(res, mapping, i) ==
    IF i > Len(res) THEN << >>
    ELSE <<<<mapping[res[i][1]], mapping[res[i][2]]>>>> \o Translate(res, mapping, i + 1)


\* ---- the state machine ----
Graph == [left |-> left, right |-> right, adj |-> adj,
          leftOrder |-> leftOrder, adjOrder |-> adjOrder]
Matcher == [pair_left |-> pair_left, pair_right |-> pair_right,
            distance |-> distance, size |-> size, max_size |-> max_size]

NoResult == [kind |-> "none", list |-> << >>, size |-> 0]
\* The cardinality a returned result stands for.
Card(r) == IF r.kind = "size" THEN r.size ELSE Len(r.list)

\* The state in which a public function has just been called.
Called ==
    /\ pc = "start"
    /\ err = "none"
    /\ left = {} /\ right = {} /\ adj = EmptyMap
    /\ leftOrder = << >> /\ adjOrder = EmptyMap
    /\ back_mapping = EmptyMap
    /\ pair_left = EmptyMap /\ pair_right = EmptyMap /\ distance = EmptyMap
    /\ size = 0 /\ max_size = 0
    /\ cursor = 0
    /\ result = NoResult
    /\ phase = 0 /\ bfsFound = FALSE /\ dfsCalls = 0 /\ overflow = FALSE
    /\ lastDfs = NoDfs /\ deadEnds = {} /\ revisited = FALSE
    /\ infEntry = FALSE /\ sizeAtBfs = 0
    /\ runs = 1 /\ prevCard = -1

Init ==
    /\ edges \in EdgeLists
    /\ call \in Calls
    /\ Called

\* The call panics with e: the graph and the matcher are dropped.
Panic(e) ==
    /\ pc' = "panic"
    /\ err' = e
    /\ left' = {} /\ right' = {} /\ adj' = EmptyMap
    /\ leftOrder' = << >> /\ adjOrder' = EmptyMap
    /\ back_mapping' = EmptyMap
    /\ pair_left' = EmptyMap /\ pair_right' = EmptyMap /\ distance' = EmptyMap
    /\ size' = 0 /\ max_size' = 0
    /\ cursor' = 0

\* BGraph::new, called by matching, matching_size and bounded_matching.
BGraphNew ==
    /\ pc = "start"
    /\ ~Mapped(call.op)
    /\ \E g \in {NewFold(edges, 1, EmptyGraph)} :
       IF NotBipartite(g)
       THEN Panic("not_bipartite")
       ELSE /\ pc' = "built"
            /\ left' = g.left /\ right' = g.right /\ adj' = g.adj
            /\ UNCHANGED <<err, leftOrder, adjOrder, back_mapping, pair_left,
                           pair_right, distance, size, max_size, cursor>>
    /\ UNCHANGED <<edges, call, result, phase, bfsFound, dfsCalls,
                   overflow, dfsLog, runs, prevCard>>

\* BGraph::new_mapped, called by the mapped functions.
BGraphNewMapped ==
    /\ pc = "start"
    /\ Mapped(call.op)
    /\ \E lo \in Perms(CollectLeft(edges, 1, {})),
          ro \in Perms(CollectRight(edges, 1, {})) :
         LET nm == NewMapped(edges, lo, ro) IN
         /\ left' = nm.graph.left /\ right' = nm.graph.right
         /\ adj' = nm.graph.adj
         /\ back_mapping' = nm.back_mapping
    /\ pc' = "built"
    /\ UNCHANGED <<edges, call, err, leftOrder, adjOrder, pair_left,
                   pair_right, distance,
                   size, max_size, cursor, result, phase, bfsFound, dfsCalls,
                   overflow, dfsLog, runs, prevCard>>

\* BGraph::compute, compute_size, compute_bounded, compute_bounded_size up to
\* the call of the matcher's loop.
Compute ==
    /\ pc = "built"
    /\ LET hk == HKNew(Graph) IN
       /\ pair_left' = hk.pair_left
       /\ pair_right' = hk.pair_right
       /\ distance' = hk.distance
       /\ size' = hk.size
       /\ max_size' = IF Bounded(call.op)
                      THEN BoundedMaxSize(call.bound, hk.max_size)
                      ELSE hk.max_size
    /\ pc' = "while"
    /\ UNCHANGED <<edges, call, err, left, right, adj, leftOrder, adjOrder,
                   back_mapping, cursor, result, phase, bfsFound, dfsCalls,
                   overflow, dfsLog, runs, prevCard>>

\* The condition of the while loop (lines 71, 84), with the graph's sets
\* iterated in the orders lo and ao: one bfs and the size test.
WhileStep(lo, ao) ==
    \E b \in {Bfs([Graph EXCEPT !.leftOrder = lo, !.adjOrder = ao], Matcher)} :
       /\ overflow' = (overflow \/ b.overflow)
       /\ phase' = phase + 1
       /\ IF b.err # "none"
          THEN /\ Panic(b.err)
               /\ UNCHANGED bfsFound
          ELSE /\ leftOrder' = lo
               /\ adjOrder' = ao
               /\ distance' = b.distance
               /\ bfsFound' = BfsReturn(b.distance)
               /\ IF LoopContinues(BfsReturn(b.distance), size, max_size)
                  THEN /\ pc' = IF Len(lo) = 0 THEN "while" ELSE "for"
                       /\ cursor' = 1
                  ELSE /\ pc' = "return"
                       /\ UNCHANGED cursor
               /\ UNCHANGED <<err, left, right, adj, back_mapping, pair_left,
                              pair_right, size, max_size>>

While ==
    /\ pc = "while"
    /\ IF phase = 0
       THEN \E lo \in Perms(left), ao \in AdjOrders(Graph) : WhileStep(lo, ao)
       ELSE WhileStep(leftOrder, adjOrder)
    /\ deadEnds' = {}
    /\ sizeAtBfs' = size
    /\ UNCHANGED <<edges, call, result, dfsCalls, lastDfs, revisited, infEntry,
                   runs, prevCard>>

\* Variant of IsFree: dfs is started from every left vertex.
IsFreeAlways(pl, u) == TRUE

\* The test of lines 73 and 86.
IsFree(pl, u) == pl[u] = GUARD

\* Variant of ForAdvance: the for loop is left after the first augmentation.
ForAdvanceBreak ==
    IF IsFree(pair_left, leftOrder[cursor]) /\ size' > size
    THEN pc' = "while" /\ cursor' = 0
    ELSE IF cursor < Len(leftOrder)
    THEN pc' = "for" /\ cursor' = cursor + 1
    ELSE pc' = "while" /\ cursor' = 0

\* Where the for loop goes after the iteration at `cursor`.
ForAdvance ==
    IF cursor < Len(leftOrder)
    THEN pc' = "for" /\ cursor' = cursor + 1
    ELSE pc' = "while" /\ cursor' = 0

\* One iteration of `for u in &graph.left` on a free u (lines 73-77).
ForDfs ==
    /\ pc = "for"
    /\ LET u == leftOrder[cursor] IN
       /\ IsFree(pair_left, u)
       /\ \E d \in {Dfs(Graph, u, [pair_left |-> pair_left,
                                      pair_right |-> pair_right,
                                      distance |-> distance, ret |-> FALSE,
                                      err |-> "none", overflow |-> FALSE,
                                      flips |-> 0, deadEnds |-> deadEnds,
                                      revisited |-> FALSE,
                                      infEntry |-> FALSE])} :
          /\ overflow' = (overflow \/ d.overflow)
          /\ dfsCalls' = dfsCalls + 1
          /\ lastDfs' = [u |-> u, ret |-> d.ret, flips |-> d.flips]
          /\ deadEnds' = d.deadEnds
          /\ revisited' = (revisited \/ d.revisited)
          /\ infEntry' = (infEntry \/ d.infEntry)
          /\ UNCHANGED sizeAtBfs
          /\ IF d.err # "none"
             THEN Panic(d.err)
             ELSE /\ pair_left' = d.pair_left
                  /\ pair_right' = d.pair_right
                  /\ distance' = d.distance
                  /\ size' = SizeAfterDfs(size, d.ret)
                  /\ ForAdvance
                  /\ UNCHANGED <<err, left, right, adj, leftOrder, adjOrder,
                                 back_mapping, max_size>>
    /\ UNCHANGED <<edges, call, result, phase, bfsFound, runs, prevCard>>

\* One iteration of the for loop on a matched u (line 73 is false).
ForSkip ==
    /\ pc = "for"
    /\ ~IsFree(pair_left, leftOrder[cursor])
    /\ ForAdvance
    /\ UNCHANGED <<edges, call, err, left, right, adj, leftOrder, adjOrder,
                   back_mapping, pair_left, pair_right, distance, size,
                   max_size, result, phase, bfsFound, dfsCalls, overflow,
                   dfsLog, runs, prevCard>>

\* compute's result (line 80), translated back by the mapped functions.
ReturnList ==
    /\ pc = "return"
    /\ ~ReturnsSize(call.op)
    /\ \E order \in Perms(Matched(pair_left)) :
         LET res == Extract(pair_left, order, 1) IN
         result' = [kind |-> "list",
                    list |-> IF Mapped(call.op)
                             THEN Translate(res, back_mapping, 1) ELSE res,
                    size |-> 0]
    /\ pc' = "done"
    /\ UNCHANGED <<edges, call, err, left, right, adj, leftOrder, adjOrder,
                   back_mapping, pair_left, pair_right, distance, size,
                   max_size, cursor, phase, bfsFound, dfsCalls, overflow,
                   dfsLog, runs, prevCard>>

\* compute_size's result (line 93).
ReturnSize ==
    /\ pc = "return"
    /\ ReturnsSize(call.op)
    /\ result' = [kind |-> "size", list |-> << >>, size |-> size]
    /\ pc' = "done"
    /\ UNCHANGED <<edges, call, err, left, right, adj, leftOrder, adjOrder,
                   back_mapping, pair_left, pair_right, distance, size,
                   max_size, cursor, phase, bfsFound, dfsCalls, overflow,
                   dfsLog, runs, prevCard>>

\* The same public function is called again on the same input; the sets it
\* builds may be iterated in another order.
Rerun ==
    /\ pc = "done"
    /\ runs < MaxRuns
    /\ runs' = runs + 1
    /\ prevCard' = Card(result)
    /\ pc' = "start"
    /\ left' = {} /\ right' = {} /\ adj' = EmptyMap
    /\ leftOrder' = << >> /\ adjOrder' = EmptyMap
    /\ back_mapping' = EmptyMap
    /\ pair_left' = EmptyMap /\ pair_right' = EmptyMap /\ distance' = EmptyMap
    /\ size' = 0 /\ max_size' = 0
    /\ cursor' = 0
    /\ result' = NoResult
    /\ phase' = 0 /\ bfsFound' = FALSE /\ dfsCalls' = 0 /\ overflow' = FALSE
    /\ lastDfs' = NoDfs /\ deadEnds' = {} /\ revisited' = FALSE
    /\ infEntry' = FALSE /\ sizeAtBfs' = 0
    /\ UNCHANGED <<edges, call, err>>

Next ==
    \/ BGraphNew
    \/ BGraphNewMapped
    \/ Compute
    \/ While
    \/ ForDfs
    \/ ForSkip
    \/ ReturnList
    \/ ReturnSize

Spec == Init /\ [][Next]_vars

\* Larger graphs with disjoint sides: the first list of tests::test_basic; a
\* path of five edges, whose only augmenting path after a first pass that
\* matches 2-4 and 3-5 has three left vertices; and a graph in which a second
\* pass can run into a matched vertex with no way on (1, matched to 5) from
\* two free vertices (3 and 4); and a graph on which the passes can find
\* augmenting paths of one, then two, then three left vertices.
DeepInputs ==
    {<<<<0, 10>>, <<0, 11>>, <<0, 12>>, <<1, 11>>, <<2, 12>>>>,
     <<<<1, 4>>, <<2, 4>>, <<2, 5>>, <<3, 5>>, <<3, 6>>>>,
     <<<<1, 5>>, <<2, 6>>, <<2, 7>>, <<3, 5>>, <<4, 5>>, <<4, 6>>>>,
     <<<<1, 5>>, <<1, 6>>, <<2, 5>>, <<2, 7>>, <<3, 5>>, <<4, 6>>, <<4, 8>>>>}

\* Calls of the functions that build their graph with BGraph::new, on the
\* small edge lists and on the larger graphs.
InitPlain ==
    /\ edges \in EdgeLists \cup DeepInputs
    /\ call \in {c \in Calls : ~Mapped(c.op)}
    /\ Called

NextPlain ==
    \/ BGraphNew
    \/ Compute
    \/ While
    \/ ForDfs
    \/ ForSkip
    \/ ReturnList
    \/ ReturnSize

SpecPlain == InitPlain /\ [][NextPlain]_vars

\* The call is the only thread and runs on until it returns or panics.
SpecPlainFair == SpecPlain /\ WF_vars(NextPlain)

NextRerun == Next \/ Rerun

SpecRerun == Init /\ [][NextRerun]_vars


\* ---- reference notions, independent of the algorithm ----
EdgeSet(es) == Range(es)
\* Some label is the left endpoint of one edge and the right endpoint of one.
SidesOverlap(es) == \E i, j \in 1..Len(es) : es[i][1] = es[j][2]
IsMatching(M) == \A e, f \in M : e # f => (e[1] # f[1] /\ e[2] # f[2])
\* Size of a maximum matching of the edge set E, by exhaustive search.
MaxMatchingSize(E) ==
    LET sizes == {Cardinality(M) : M \in {X \in SUBSET E : IsMatching(X)}}
    IN CHOOSE n \in sizes : \A k \in sizes : k <= n
\* Left vertices reachable from S by alternating paths of E relative to M.
RECURSIVE AltReach(_, _, _)
AltReach(E, M, S) ==
    LET T == S \cup {m[1] : m \in {x \in M : \E e \in E \ M :
                                        e[1] \in S /\ e[2] = x[2]}}
    IN IF T = S THEN S ELSE AltReach(E, M, T)
HasAugmentingPath(E, M) ==
    LET free == {e[1] : e \in E} \ {m[1] : m \in M}
        reach == AltReach(E, M, free)
    IN \E e \in E : e[1] \in reach /\ e[2] \notin {m[2] : m \in M}
RemoveAt(s, j) == [i \in 1..(Len(s) - 1) |-> IF i < j THEN s[i] ELSE s[i + 1]]
DistinctLeft(es) == {es[i][1] : i \in 1..Len(es)}
DistinctRight(es) == {es[i][2] : i \in 1..Len(es)}


\* ---- properties ----

\* C1 (maximality): when matching(E) returns, E has no augmenting path relative
\* to the returned matching, and the returned list is as long as a maximum
\* matching of E found by exhaustive search, whatever the iteration orders.
C1_Maximality ==
    (pc = "done" /\ call.op = "matching") =>
        /\ ~HasAugmentingPath(EdgeSet(edges), Range(result.list))
        /\ Len(result.list) = MaxMatchingSize(EdgeSet(edges))

\* C1 case: matching returned two pairs after a phase that had to re-route a
\* matched vertex (three bfs runs, a skipped matched vertex in the second pass).
C1_Witness ==
    /\ pc = "done" /\ call.op = "matching"
    /\ phase = 3 /\ dfsCalls = 3 /\ Len(result.list) = 2

\* C2 (validity): the list returned by a list-returning function uses each
\* left vertex at most once and each right vertex at most once, and each of
\* its pairs is an edge of E, left endpoint first.
C2_Validity ==
    (pc = "done" /\ result.kind = "list") =>
        /\ \A i, j \in 1..Len(result.list) :
              i # j => /\ result.list[i][1] # result.list[j][1]
                       /\ result.list[i][2] # result.list[j][2]
        /\ \A i \in 1..Len(result.list) : result.list[i] \in EdgeSet(edges)

\* C2 case: bounded_matching returned a list of two pairs.
C2_Witness ==
    /\ pc = "done" /\ call.op = "bounded_matching"
    /\ Len(result.list) = 2

\* C3 (bound respected): bounded_matching(E, k) returns exactly
\* min(k, maximum matching size of E) pairs, and in a bounded call the running
\* size never exceeds max_size = min(k, min(|left|, |right|)).
C3_BoundRespected ==
    /\ (pc = "done" /\ call.op = "bounded_matching") =>
          Len(result.list) = Min(call.bound, MaxMatchingSize(EdgeSet(edges)))
    /\ (Bounded(call.op) /\ pc \in {"while", "for", "return", "done"}) =>
          size <= max_size

\* C4 (non-bipartite rejection): a call that builds its graph with BGraph::new
\* panics with "not bipartite" iff some label is a left endpoint of one edge
\* and a right endpoint of one; the panic comes before any bfs or dfs and
\* nothing is returned.
C4_NonBipartiteRejected ==
    /\ (~Mapped(call.op) /\ pc # "start") =>
          ((pc = "panic" /\ err = "not_bipartite") <=> SidesOverlap(edges))
    /\ err = "not_bipartite" =>
          /\ ~Mapped(call.op)
          /\ pc = "panic" /\ result = NoResult
          /\ phase = 0 /\ dfsCalls = 0

\* C4 case: the call was rejected although no single edge has the same label
\* at both ends.
C4_Witness ==
    /\ pc = "panic" /\ err = "not_bipartite"
    /\ Len(edges) >= 2
    /\ \A i \in 1..Len(edges) : edges[i][1] # edges[i][2]

\* C5 (size consistency): when the phase loop has ended the size counter is the
\* number of left vertices with a partner; what is returned (a list's length
\* or the counter) is that number; and for the unbounded functions it is the
\* same number for the list and the size function of either variant, the
\* maximum matching size of E.
C5_SizeConsistency ==
    /\ pc \in {"return", "done"} =>
          size = Cardinality({u \in left : pair_left[u] # GUARD})
    /\ pc = "done" => Card(result) = size
    /\ (pc = "done" /\ ~Bounded(call.op)) =>
          Card(result) = MaxMatchingSize(EdgeSet(edges))

\* C5 case: matching_mapped_size returned 2 after a pass in which a dfs failed.
C5_Witness ==
    /\ pc = "done" /\ call.op = "matching_mapped_size"
    /\ result.size = 2 /\ dfsCalls > 2

\* C6 (relabeling transparency): when matching_mapped(E) returns, the sides of
\* E are disjoint (so matching(E) returns too), the list is as long as the one
\* matching(E) returns (a maximum matching of E), and every returned pair,
\* translated back through the reverse table, is an edge of E.
C6_RelabelingTransparent ==
    (pc = "done" /\ call.op = "matching_mapped") =>
        /\ ~SidesOverlap(edges)
        /\ Len(result.list) = MaxMatchingSize(EdgeSet(edges))
        /\ \A i \in 1..Len(result.list) : result.list[i] \in EdgeSet(edges)

\* C6 case: matching_mapped returned two pairs translated from ids whose
\* values differ from the labels.
C6_Witness ==
    /\ pc = "done" /\ call.op = "matching_mapped"
    /\ Len(result.list) = 2
    /\ \E id \in DOMAIN back_mapping : back_mapping[id] # id

\* C7 (determinism of size): a second call of the same function on the same
\* edge list and bound returns the same cardinality as the first, whatever
\* the iteration orders of the two calls.
C7_SizeDeterministic ==
    (pc = "done" /\ prevCard # -1) => Card(result) = prevCard

\* C8 (upper bound): in an unbounded call the size counter, and the returned
\* cardinality, never exceed min(number of distinct left labels, number of
\* distinct right labels) of the edge list.
C8_UpperBound ==
    ~Bounded(call.op) =>
        /\ size <= Min(Cardinality(DistinctLeft(edges)),
                       Cardinality(DistinctRight(edges)))
        /\ pc = "done" =>
              Card(result) <= Min(Cardinality(DistinctLeft(edges)),
                                  Cardinality(DistinctRight(edges)))

\* C8 case: in the middle of a pass the counter has reached the smaller
\* side's cardinality while free left vertices are still to be tried.
C8_Witness ==
    /\ ~Bounded(call.op) /\ pc = "for"
    /\ size = Min(Cardinality(DistinctLeft(edges)),
                  Cardinality(DistinctRight(edges)))
    /\ \E i \in cursor..Len(leftOrder) : pair_left[leftOrder[i]] = GUARD

\* C9 (duplicate edges): if the edge at position j of E occurs at another
\* position too, BGraph::new builds for E the left set, right set and
\* adjacency it builds for E without position j, and the unbounded functions
\* return for E the maximum matching size of E without position j.
C9_DuplicateIdempotent ==
    \A j \in 1..Len(edges) :
        (\E i \in 1..Len(edges) : i # j /\ edges[i] = edges[j]) =>
            /\ (~Mapped(call.op) /\ pc \in {"built", "while", "for", "return", "done"}) =>
                  LET g == NewFold(RemoveAt(edges, j), 1, EmptyGraph)
                  IN left = g.left /\ right = g.right /\ adj = g.adj
            /\ (pc = "done" /\ ~Bounded(call.op)) =>
                  Card(result) = MaxMatchingSize(EdgeSet(RemoveAt(edges, j)))

\* C9 case: matching_size returned for a list that repeats an edge after
\* another edge of the same left vertex.
C9_Witness ==
    /\ pc = "done" /\ call.op = "matching_size"
    /\ Len(edges) = 3 /\ edges[1] = edges[3] /\ edges[2] # edges[1]
    /\ edges[2][1] = edges[1][1]

\* C10 (empty input): on the empty edge list no function panics, every call
\* runs on until it returns, and it returns the empty list or 0 after exactly
\* one bfs, which returned false, and no dfs.
C10_EmptyInputValid ==
    edges = << >> =>
        /\ pc # "panic" /\ err = "none"
        /\ pc # "done" => ENABLED Next
        /\ pc = "done" =>
              /\ result.list = << >> /\ Card(result) = 0
              /\ result.kind = (IF ReturnsSize(call.op) THEN "size" ELSE "list")
              /\ phase = 1 /\ ~bfsFound /\ dfsCalls = 0

\* C10 case: a bounded mapped call on the empty list has returned.
C10_Witness ==
    /\ edges = << >> /\ pc = "done"
    /\ call.op = "bounded_matching_mapped" /\ call.bound = 1

\* The states in which control is in the phase loop or past it: the matcher
\* exists and no bfs or dfs is under way.
InPhaseLoop == pc \in {"while", "for", "return", "done"}

\* C11: pairing consistency. In every state in which control is in the phase
\* loop (after HopcroftKarp::new, after each bfs, after each top-level dfs),
\* pair_left has an entry for every left vertex and pair_right one for every
\* right vertex, pair_left[u] = v exactly if pair_right[v] = u, and GUARD is
\* the partner of exactly the vertices no vertex of the other side points to.
C11_PairingConsistent ==
    InPhaseLoop =>
        /\ DOMAIN pair_left = left
        /\ DOMAIN pair_right = right
        /\ \A u \in left : \A v \in right :
              (pair_left[u] = v) <=> (pair_right[v] = u)
        /\ \A u \in left :
              (pair_left[u] = GUARD) <=> (\A v \in right : pair_right[v] # u)
        /\ \A v \in right :
              (pair_right[v] = GUARD) <=> (\A u \in left : pair_left[u] # v)

\* C11 witness: the last top-level dfs of a pass has just re-routed a matched
\* vertex (two edges matched up by one call).
C11_Witness ==
    /\ pc = "while"
    /\ lastDfs.ret
    /\ lastDfs.flips = 2
    /\ \E u \in left : pair_left[u] # GUARD /\ u # lastDfs.u

\* C12: termination and progress. Every call returns or panics; and whenever a
\* pass of the for loop has ended (control is back at the while condition
\* after at least one bfs), size is larger than it was when that pass's bfs
\* ran, so every phase whose body ran held a successful top-level dfs.
C12_TerminationProgress ==
    /\ <>(pc \in {"done", "panic"})
    /\ []((pc = "while" /\ phase >= 1) => size > sizeAtBfs)

\* C12 witness: a call has returned after two passes, each of which made size
\* grow, and a last bfs that found no augmenting path.
C12_Witness ==
    /\ pc = "done"
    /\ phase = 3
    /\ size >= 2
    /\ sizeAtBfs = size

\* The matching a pair_left map stands for.
MatchingOf(pl) == {<<u, pl[u]>> : u \in Matched(pl)}

\* The number of edges of `added` on the walk that starts at the left vertex a,
\* takes the edge of `added` at a, and goes on from the vertex its right end
\* was matched to in pr, until a right end is unmatched in pr; -1 if the walk
\* breaks off or branches, and more than Cardinality(added) if it runs in a
\* circle.
RECURSIVE WalkLen(_, _, _, _)
WalkLen(a, added, pr, n) ==
    IF n > Cardinality(added) THEN n
    ELSE LET es == {e \in added : e[1] = a} IN
         IF Cardinality(es) # 1 THEN -1
         ELSE LET v == (CHOOSE e \in es : TRUE)[2] IN
              IF pr[v] = GUARD THEN n + 1 ELSE WalkLen(pr[v], added, pr, n + 1)

\* A step that is one top-level dfs call (lines 73-77) which did not panic.
TopLevelDfsStep == dfsCalls' = dfsCalls + 1 /\ pc' # "panic"

\* C13: effect of an augmentation. A top-level dfs is called on a free left
\* vertex u. If it returns true, the new matching is the old one with one
\* path flipped: the new edges are graph edges and form one walk from u to a
\* right vertex that was unmatched, each leads one level down in the depths
\* of the last bfs, the dropped edges are exactly the old matched edges
\* between them, each new edge was matched up once, and the matching and size
\* grew by one. If it returns false, pair_left, pair_right and size are as
\* before. Either way size is the number of left vertices with a partner.
C13_AugmentationEffect ==
    [][TopLevelDfsStep =>
        LET u == lastDfs'.u
            M0 == MatchingOf(pair_left)
            M1 == MatchingOf(pair_left')
            added == M1 \ M0
            dropped == M0 \ M1
        IN /\ u = leftOrder[cursor]
           /\ pair_left[u] = GUARD
           /\ size' = Cardinality(Matched(pair_left'))
           /\ IF lastDfs'.ret
              THEN /\ size' = size + 1
                   /\ Cardinality(M1) = Cardinality(M0) + 1
                   /\ WalkLen(u, added, pair_right, 0) = Cardinality(added)
                   /\ dropped = {<<pair_right[e[2]], e[2]>> :
                                    e \in {x \in added : pair_right[x[2]] # GUARD}}
                   /\ \A e \in added :
                         /\ e[2] \in adj[e[1]]
                         /\ distance[pair_right[e[2]]] = distance[e[1]] + 1
                         /\ pair_right'[e[2]] = e[1]
                   /\ lastDfs'.flips = Cardinality(added)
              ELSE /\ pair_left' = pair_left
                   /\ pair_right' = pair_right
                   /\ size' = size
    ]_vars

\* C13 witness: a top-level dfs returned true after flipping a path of three
\* new edges (two matched vertices re-routed).
C13_Witness ==
    /\ lastDfs.ret
    /\ lastDfs.flips = 3
    /\ size = 3

\* The depth of every left vertex an alternating path reaches from a free left
\* vertex: the number of matched edges on a shortest such path. a is the
\* adjacency map and pr the map from right vertices to their partners; the
\* vertices of `frontier` have depth k and acc holds the depths found so far.
RECURSIVE AltDepths(_, _, _, _, _)
AltDepths(a, pr, frontier, k, acc) ==
    IF frontier = {} THEN acc
    ELSE LET next == {pr[v] : v \in UNION {a[u] : u \in frontier}}
                        \ ({GUARD} \cup DOMAIN acc)
         IN AltDepths(a, pr, next, k + 1,
                      [u \in (DOMAIN acc) \cup next |->
                          IF u \in next THEN k + 1 ELSE acc[u]])

\* The numbers of left vertices on the shortest augmenting paths through each
\* left vertex that has an unmatched neighbour.
AugLengths(a, pr, depth) ==
    {depth[u] + 1 : u \in {x \in DOMAIN depth : \E v \in a[x] : pr[v] = GUARD}}

\* A step that is one bfs which did not panic.
BfsStep == phase' = phase + 1 /\ pc' # "panic"

\* C14: bfs layering. After a bfs, every free left vertex has depth 0; every
\* left vertex with a finite depth has the number of matched edges on a
\* shortest alternating path from a free left vertex to it; bfs returns true
\* (the depth of GUARD is finite) exactly if an augmenting path exists for the
\* current matching, and then the depth of GUARD is the number of left
\* vertices on a shortest one. bfs changes none of pair_left, pair_right, size.
C14_BfsLayering ==
    [][BfsStep =>
        LET free == {u \in left : pair_left[u] = GUARD}
            ref == AltDepths(adj, pair_right, free, 0, [u \in free |-> 0])
            lens == AugLengths(adj, pair_right, ref)
        IN /\ pair_left' = pair_left
           /\ pair_right' = pair_right
           /\ size' = size
           /\ \A u \in free : distance'[u] = 0
           /\ \A u \in left :
                 distance'[u] # INFINITY =>
                     u \in DOMAIN ref /\ distance'[u] = ref[u]
           /\ bfsFound' <=> (distance'[GUARD] # INFINITY)
           /\ bfsFound' <=> (lens # {})
           /\ bfsFound' <=>
                 HasAugmentingPath(EdgeSet(edges), MatchingOf(pair_left))
           /\ bfsFound' =>
                 /\ distance'[GUARD] \in lens
                 /\ \A n \in lens : distance'[GUARD] <= n
    ]_vars

\* C14 witness: the second bfs of a call has just found that the shortest
\* augmenting path has three left vertices, two of them matched.
C14_Witness ==
    /\ pc = "for"
    /\ cursor = 1
    /\ phase = 2
    /\ deadEnds = {}
    /\ distance[GUARD] = 3
    /\ \E u \in left : distance[u] = 2

\* C15: no internal consistency violation. On an edge list whose sides are
\* disjoint no call panics: Guarded::vertex and neighbours_guarded are never
\* reached with GUARD ("guard"), the debug assertion of bfs holds
\* ("debug_assert"), no map is indexed with a key it lacks ("missing_key");
\* and the keys the next step will index are there: the left vertex the for
\* loop is at has a pair_left entry and an adjacency entry, every vertex has a
\* depth once bfs has run, and every id of a returned pair has a label.
C15_NoInternalViolation ==
    ~SidesOverlap(edges) =>
        /\ pc # "panic"
        /\ err = "none"
        /\ pc = "for" =>
              /\ leftOrder[cursor] \in DOMAIN pair_left
              /\ leftOrder[cursor] \in DOMAIN adj
              /\ \A v \in adj[leftOrder[cursor]] : v \in DOMAIN pair_right
              /\ \A u \in left \cup {GUARD} : u \in DOMAIN distance
        /\ (pc = "return" /\ Mapped(call.op)) =>
              \A u \in Matched(pair_left) :
                  u \in DOMAIN back_mapping /\ pair_left[u] \in DOMAIN back_mapping

\* C15 witness: a mapped call on an edge list with disjoint sides has returned
\* after three bfs runs and a pass whose dfs went through a matched vertex.
C15_Witness ==
    /\ ~SidesOverlap(edges)
    /\ Mapped(call.op)
    /\ pc = "done"
    /\ phase = 3
    /\ lastDfs.flips = 2

\* A mapped function has built its graph with new_mapped and has not panicked.
MappedGraphBuilt ==
    Mapped(call.op) /\ pc \in {"built", "while", "for", "return", "done"}

\* The relabelled graph is bipartite in the integer domain and the reverse
\* table leads back to the edge list: left and right ids are disjoint, left
\* ids lie below right ids, every id has an adjacency entry, the left ids
\* stand for exactly the left labels and the right ids for exactly the right
\* labels, one id per label, and the adjacency of the left ids, translated
\* back, is the edge set.
RelabelledBipartite ==
    /\ left \cap right = {}
    /\ \A l \in left : \A r \in right : l < r
    /\ \A id \in left \cup right : id \in DOMAIN adj /\ id \in DOMAIN back_mapping
    /\ Cardinality(left) = Cardinality(DistinctLeft(edges))
    /\ Cardinality(right) = Cardinality(DistinctRight(edges))
    /\ {back_mapping[id] : id \in left \cap DOMAIN back_mapping} = DistinctLeft(edges)
    /\ {back_mapping[id] : id \in right \cap DOMAIN back_mapping} = DistinctRight(edges)
    /\ \A u \in left \cap DOMAIN adj : \A v \in adj[u] :
          <<back_mapping[u], back_mapping[v]>> \in EdgeSet(edges)
    /\ \A e \in EdgeSet(edges) :
          \E u \in left \cap DOMAIN adj : \E v \in adj[u] :
              back_mapping[u] = e[1] /\ back_mapping[v] = e[2]

\* C16 as stated: for every edge list given to a mapped function, the graph
\* new_mapped builds is bipartite in the integer domain, with its reverse table.
C16_RelabelledBipartiteAlways == MappedGraphBuilt => RelabelledBipartite

\* C16 amended: for every edge list in which no label is a left endpoint of
\* one edge and a right endpoint of another, the graph new_mapped builds is
\* bipartite in the integer domain, with its reverse table.
C16_RelabelledBipartiteDisjoint ==
    (MappedGraphBuilt /\ ~SidesOverlap(edges)) => RelabelledBipartite

\* C16 witness: new_mapped has built a graph with two left and two right ids
\* from labels that are not the ids.
C16_Witness ==
    /\ pc = "built"
    /\ Mapped(call.op)
    /\ ~SidesOverlap(edges)
    /\ Cardinality(left) = 2
    /\ Cardinality(right) = 2
    /\ \E id \in left : back_mapping[id] # id

\* C17: dead ends are not revisited. A left vertex on which a dfs call of the
\* current phase returned false keeps depth INFINITY until the next bfs, and
\* no dfs call, top-level or recursive, is entered on such a vertex; so a
\* vertex fails at most once per phase.
C17_DeadEndsNotRevisited ==
    /\ ~revisited
    /\ pc \in {"for", "while"} => \A u \in deadEnds : distance[u] = INFINITY

\* C17 witness: in the current pass a top-level dfs from the free vertex w
\* failed after the call on the matched vertex u, the partner of a neighbour
\* of w, had failed; the last top-level dfs, from a vertex that has u's
\* partner as a neighbour too, returned true without ending in u.
C17_Witness ==
    /\ pc \in {"for", "while"}
    /\ lastDfs.ret
    /\ lastDfs.u \in DOMAIN adj
    /\ \E u, w \in deadEnds :
          /\ pair_left[w] = GUARD
          /\ pair_left[u] # GUARD
          /\ pair_left[u] \in adj[w]
          /\ pair_left[u] \in adj[lastDfs.u]

\* C18: shortest augmenting paths grow. The depth of GUARD is written by bfs
\* only; when a bfs that follows a pass finds an augmenting path, the depth it
\* gives GUARD is larger than the depth the bfs before the pass gave it.
C18_SentinelDepthGrows ==
    [][(BfsStep /\ phase >= 1 /\ bfsFound /\ bfsFound') =>
           distance'[GUARD] > distance[GUARD]]_vars

\* C18 witness: the third bfs of a call found augmenting paths of three left
\* vertices after the first two found paths of one and of two.
C18_Witness ==
    /\ phase = 3
    /\ bfsFound
    /\ pc = "for"
    /\ cursor = 1
    /\ deadEnds = {}
    /\ size = 3
    /\ distance[GUARD] = 3

\* C19: matched vertices stay matched. From one phase-loop state of a call to
\* the next, a left or right vertex with a partner other than GUARD keeps a
\* partner other than GUARD (not always the same one).
C19_MatchedStayMatched ==
    [][(InPhaseLoop /\ InPhaseLoop') =>
          /\ \A u \in DOMAIN pair_left :
                pair_left[u] # GUARD =>
                    u \in DOMAIN pair_left' /\ pair_left'[u] # GUARD
          /\ \A v \in DOMAIN pair_right :
                pair_right[v] # GUARD =>
                    v \in DOMAIN pair_right' /\ pair_right'[v] # GUARD
    ]_vars

\* C19 witness: a mapped call has returned after a dfs that gave a matched
\* left vertex another partner.
C19_Witness ==
    /\ pc = "done"
    /\ Mapped(call.op)
    /\ lastDfs.ret
    /\ lastDfs.flips = 2
    /\ size = 2

\* C20: no overflow on the infinite depth. distance[u] + 1 (lines 121 and 138)
\* is never evaluated for a u of depth INFINITY, no dfs call is entered on a
\* left vertex of depth INFINITY, and every depth that is not INFINITY is at
\* most the number of left vertices, far below INFINITY.
C20_NoOverflow ==
    /\ ~overflow
    /\ ~infEntry
    /\ \A k \in DOMAIN distance :
          distance[k] = INFINITY \/ distance[k] <= Cardinality(left)

\* C20 witness: top-level dfs calls are being made in a pass in which a
\* matched left vertex has depth INFINITY straight from bfs (it is no dead
\* end) while GUARD has a finite depth.
C20_Witness ==
    /\ pc = "for"
    /\ dfsCalls >= 3
    /\ distance[GUARD] # INFINITY
    /\ \E u \in left \ deadEnds :
          /\ pair_left[u] # GUARD
          /\ distance[u] = INFINITY

====
